---- MODULE Spec2Model ----
(***************************************************************************)
(* A model of wt_cache: WriteThroughCache (src/src/lib.rs), a fixed-page,  *)
(* write-through, LRU byte cache in front of one backing file.             *)
(*                                                                         *)
(* All sizes, addresses and offsets are in bytes, as in the code.  A byte   *)
(* buffer (a page, the backing file, caller data) is stored as a sequence  *)
(* of cells of Grain equal bytes each; every address, size and file length *)
(* the model draws is a multiple of Grain, so no operation splits a cell.  *)
(* u64 arithmetic is modelled with a reduced word of AddrBits bits, so     *)
(* that the top of the address space is reachable by the model checker.    *)
(***************************************************************************)
EXTENDS Integers, Sequences, FiniteSets, TLC

\* ------------------------------------------------------------------------
\* Program constants (src/src/lib.rs:9-14)
\* ------------------------------------------------------------------------
DEFAULT_PAGE_SIZE == 64 * 1024
MIN_PAGE_SIZE == 512
MAX_PAGE_SIZE == 1024 * 1024
DEFAULT_CAPACITY == 16 * 1024 * 1024
MIN_CAPACITY == MIN_PAGE_SIZE
MAX_CAPACITY == 1024 * 1024 * 1024

\* ------------------------------------------------------------------------
\* Bounds of the model
\* ------------------------------------------------------------------------
\* Width of the modelled u64 word (the program's is 64 bits).
AddrBits == 16
\* Number of read/write calls in one behaviour whose I/O the environment
\* lets through (Spec).
MaxOps == 3
\* Number of read/write calls in one behaviour in which I/O may fail (SpecIo).
MaxIoOps == 2
\* Pages of the address space that requests in the low range may touch.
MaxPages == 3
\* I/O calls of one operation that the environment may make fail (1..MaxFault).
MaxFault == 13
\* Calls of one behaviour in which an I/O call fails.
MaxFaulty == 1

U64Mod == 2 ^ AddrBits
\* Largest offset lseek accepts (i64::MAX in the program's word).
I64Max == (U64Mod \div 2) - 1

Min(a, b) == IF a < b THEN a ELSE b
\* Mutant of Max: the larger value is never taken (the length is not updated).
Max_stale(a, b) == a
\* Mutant of Max: the new value is assigned, larger or not.
Max_last(a, b) == b
Max(a, b) == IF a > b THEN a ELSE b

\* ------------------------------------------------------------------------
\* Byte buffers (Vec<u8>, &[u8])
\* ------------------------------------------------------------------------
\* Bytes per cell: half the smallest page.
Grain == MIN_PAGE_SIZE \div 2

\* buf.len()
ByteLen(buf) == Len(buf) * Grain
\* buf[from..to]
Slice(buf, from, to) == SubSeq(buf, (from \div Grain) + 1, to \div Grain)
\* Mutant of Zeros: the buffer is allocated but not cleared.
Zeros_uninit(n) == [i \in 1..(n \div Grain) |-> 255]
\* vec![0; n]
Zeros(n) == [i \in 1..(n \div Grain) |-> 0]
\* Mutant of CopyInto: the copy ignores the offset and lands at the front.
CopyInto_front(dst, from, src) ==
    src \o Slice(dst, ByteLen(src), ByteLen(dst))
\* dst[from..from + src.len()].copy_from_slice(src)
CopyInto(dst, from, src) ==
    Slice(dst, 0, from) \o src
        \o Slice(dst, from + ByteLen(src), ByteLen(dst))

\* Caller data of n bytes: non-zero and different from cell to cell, so that
\* a misplaced copy is visible.
Pattern(seed, n) == [i \in 1..(n \div Grain) |-> 1 + ((seed + i) % 251)]

VARIABLES
    page_size,      \* self.page_size
    capacity,       \* self.capacity
    cache,          \* self.cache: page id -> page contents
    usage_order,    \* self.usage_order: page ids, least recently used first
    file_size,      \* self.file_size
    disk,           \* the contents of the backing file (self.file)
    exists,         \* whether the backing file exists in the file system
    constructed,    \* whether a WriteThroughCache instance is live
    last,           \* the last call and its outcome
    nops,           \* number of calls made
    nfaulty,        \* number of calls in which the environment made I/O fail
    trace,          \* history: page touches and evictions, oldest first
    init_disk,      \* history: the backing file as the constructor found it
    writes,         \* history: the successful writes, oldest first
    ref,            \* a second instance given the same calls (see Ref)
    old             \* the instance dropped at a restart (see Reopen)

vars == <<page_size, capacity, cache, usage_order, file_size, disk, exists,
          constructed, last, nops, nfaulty, trace, init_disk, writes, ref,
          old>>

\* ------------------------------------------------------------------------
\* The backing file (std::fs::File), as the code uses it
\* ------------------------------------------------------------------------
\* Mutant of FileWrite: the write does not reach the file.
FileWrite_lost(d, off, bytes) == d
\* Mutant of FileWrite: the position is ignored, the bytes go to the start
\* of the file.
FileWrite_noseek(d, off, bytes) ==
    bytes \o Slice(d, Min(ByteLen(bytes), ByteLen(d)), ByteLen(d))
\* write_all(bytes) at position off: the file grows as needed, a gap reads 0.
FileWrite(d, off, bytes) ==
    LET gap == IF off > ByteLen(d) THEN Zeros(off - ByteLen(d)) ELSE <<>>
    IN  Slice(d, 0, Min(off, ByteLen(d))) \o gap \o bytes
            \o Slice(d, off + ByteLen(bytes), ByteLen(d))

\* read_exact of n bytes at position off succeeds iff the file has them.
FileHas(d, off, n) == off + n <= ByteLen(d)
FileRead(d, off, n) == Slice(d, off, off + n)

\* The fault plan of one call: the k-th I/O call of the operation fails
\* (k = 0: none does); a failing write_all has written `partial` bytes.
\* self.io lists the I/O calls the operation has made so far, each named by
\* the function that makes it (read_page: "read.", write_page: "write.").
NoFault == [k |-> 0, partial |-> 0]
IoFails(self, fault) == Len(self.io) + 1 = fault.k
IoDone(self, call) == [self EXCEPT !.io = Append(@, call)]

\* seek(SeekFrom::Start(off)): "Ok", or the kind of its error.  lseek rejects
\* an offset above i64::MAX with EINVAL, which is ErrorKind::InvalidInput.
Seek(self, off, fault) ==
    IF IoFails(self, fault) THEN "Io"
    ELSE IF off > I64Max THEN "InvalidInput"
    ELSE "Ok"

\* ------------------------------------------------------------------------
\* WriteThroughCache
\* ------------------------------------------------------------------------
\* History: the operation touched page_id (how: "hit", "load" or "store").
Touched(self, how, page_id) ==
    [self EXCEPT !.trace = Append(@, [e |-> how, p |-> page_id, res |-> {}])]
\* History: page_id was evicted when the resident pages were res.
Evicted(self, page_id, res) ==
    [self EXCEPT !.trace = Append(@, [e |-> "evict", p |-> page_id, res |-> res])]

\* Mutant of promote: a touch does not move the page (first in, first out).
promote_fifo(self, page_id) == self
\* Mutant of promote: the page is pushed to the back without being removed
\* from its old place.
promote_dup(self, page_id) ==
    [self EXCEPT !.usage_order = Append(@, page_id)]
\* fn promote
promote(self, page_id) ==
    [self EXCEPT !.usage_order =
        SelectSeq(@, LAMBDA x : x # page_id) \o <<page_id>>]

\* Mutant of add_to_cache: the new page is pushed to the front of the recency
\* order, where the next victim is taken.
add_to_cache_front(self, page_id, data) ==
    LET evicted ==
            IF Cardinality(DOMAIN self.cache) * self.page_size >= self.capacity
               /\ self.usage_order # <<>>
            THEN LET oldest_page == Head(self.usage_order)
                 IN  [Evicted(self, oldest_page, DOMAIN self.cache) EXCEPT
                        !.usage_order = Tail(@),
                        !.cache = [p \in DOMAIN @ \ {oldest_page} |-> @[p]]]
            ELSE self
    IN  [evicted EXCEPT
            !.cache = [p \in DOMAIN @ \cup {page_id} |->
                            IF p = page_id THEN data ELSE @[p]],
            !.usage_order = <<page_id>> \o @]
\* fn add_to_cache
add_to_cache(self, page_id, data) ==
    LET evicted ==
            IF Cardinality(DOMAIN self.cache) * self.page_size >= self.capacity
               /\ self.usage_order # <<>>
            THEN LET oldest_page == Head(self.usage_order)
                 IN  [Evicted(self, oldest_page, DOMAIN self.cache) EXCEPT
                        !.usage_order = Tail(@),
                        !.cache = [p \in DOMAIN @ \ {oldest_page} |-> @[p]]]
            ELSE self
    IN  [evicted EXCEPT
            !.cache = [p \in DOMAIN @ \cup {page_id} |->
                            IF p = page_id THEN data ELSE @[p]],
            !.usage_order = Append(@, page_id)]

\* The result of a function: kind is "Ok", the kind of the error
\* ("InvalidInput" is ErrorKind::InvalidInput, "Io" any other kind), or
\* "Panic"; failed names the I/O call the error comes from ("": none, the
\* code raised it).
Res(self, kind, data) ==
    [self |-> self, kind |-> kind, data |-> data, failed |-> ""]
Fail(self, call, kind) ==
    [self |-> IoDone(self, call), kind |-> kind, data |-> <<>>,
     failed |-> call]

\* History: the cache as it is when the loop of read or write turns to the
\* next page.
Snapshot(self) ==
    [cache |-> self.cache, usage_order |-> self.usage_order,
     file_size |-> self.file_size]
AtPage(self) == [self EXCEPT !.pre = Snapshot(self)]

\* fn read_page.  `panics` is the build's choice for integer overflow:
\* TRUE aborts the call (overflow checks on), FALSE wraps around.
read_page(self, page_id, fault, panics) ==
    IF page_id \in DOMAIN self.cache
    THEN Res(Touched(promote(self, page_id), "hit", page_id), "Ok",
             self.cache[page_id])
    ELSE
    LET end == (page_id + 1) * self.page_size
        off == page_id * self.page_size
    IN  IF end >= U64Mod /\ panics
        THEN Res(self, "Panic", <<>>)
        ELSE IF end % U64Mod > self.file_size
        THEN Res(self, "InvalidInput", <<>>)
        ELSE IF Seek(self, off, fault) # "Ok"
        THEN Fail(self, "read.seek", Seek(self, off, fault))
        ELSE
        LET s1 == IoDone(self, "read.seek")
            read_size == IF end % U64Mod > s1.file_size
                         THEN s1.file_size - off
                         ELSE s1.page_size
        IN  IF IoFails(s1, fault) \/ ~FileHas(s1.disk, off, read_size)
            THEN Fail(s1, "read.read_exact", "Io")
            ELSE
            LET buffer == FileRead(s1.disk, off, read_size)
                              \o Zeros(s1.page_size - read_size)
            IN  Res(Touched(add_to_cache(IoDone(s1, "read.read_exact"), page_id,
                                         buffer),
                            "load", page_id),
                    "Ok", buffer)

\* fn write_page
write_page(self, page_id, data, fault, panics) ==
    LET off == page_id * self.page_size IN
    IF ByteLen(data) # self.page_size
    THEN Res(self, "InvalidInput", <<>>)
    ELSE IF Seek(self, off, fault) # "Ok"
    THEN Fail(self, "write.seek", Seek(self, off, fault))
    ELSE
    LET s1 == IoDone(self, "write.seek") IN
    IF IoFails(s1, fault)
    THEN Fail([s1 EXCEPT
                !.disk = IF fault.partial > 0
                         THEN FileWrite(@, off, Slice(data, 0, fault.partial))
                         ELSE @],
              "write.write_all", "Io")
    ELSE
    LET s2 == [IoDone(s1, "write.write_all") EXCEPT
                !.disk = FileWrite(@, off, data)] IN
    IF IoFails(s2, fault)
    THEN Fail(s2, "write.sync_all", "Io")
    ELSE
    LET s3 == IoDone(s2, "write.sync_all")
        s4 == IF page_id \in DOMAIN s3.cache
              THEN [s3 EXCEPT !.cache[page_id] = data]
              ELSE add_to_cache(s3, page_id, data)
        new_end == off + ByteLen(data)
    IN  IF new_end >= U64Mod /\ panics
        THEN Res(s4, "Panic", <<>>)
        ELSE Res(Touched(promote([s4 EXCEPT
                                    !.file_size = Max(@, new_end % U64Mod)],
                                 page_id),
                         "store", page_id),
                 "Ok", <<>>)


\* fn read: the loop of lines 83-95, one iteration per page touched.
RECURSIVE read_loop(_, _, _, _, _, _, _)
\* Mutant of read_loop: when a page fails, the error comes with the bytes
\* read so far.
read_loop_partial(self, size, remaining_size, current_address, buffer, fault, panics) ==
    IF remaining_size = 0
    THEN Res(self, "Ok", buffer)
    ELSE
    LET page_id == current_address \div self.page_size
        offset == current_address % self.page_size
        read_size == Min(remaining_size, self.page_size - offset)
        r == read_page(AtPage(self), page_id, fault, panics)
    IN  IF r.kind # "Ok"
        THEN [r EXCEPT !.data = buffer]
        ELSE
        LET buf_start == size - remaining_size
            copied == CopyInto(buffer, buf_start,
                               Slice(r.data, offset, offset + read_size))
            next == current_address + read_size
        IN  IF next >= U64Mod /\ panics
            THEN Res(r.self, "Panic", <<>>)
            ELSE read_loop(r.self, size, remaining_size - read_size,
                           next % U64Mod, copied, fault, panics)
read_loop(self, size, remaining_size, current_address, buffer, fault, panics) ==
    IF remaining_size = 0
    THEN Res(self, "Ok", buffer)
    ELSE
    LET page_id == current_address \div self.page_size
        offset == current_address % self.page_size
        read_size == Min(remaining_size, self.page_size - offset)
        r == read_page(AtPage(self), page_id, fault, panics)
    IN  IF r.kind # "Ok"
        THEN r
        ELSE
        LET buf_start == size - remaining_size
            copied == CopyInto(buffer, buf_start,
                               Slice(r.data, offset, offset + read_size))
            next == current_address + read_size
        IN  IF next >= U64Mod /\ panics
            THEN Res(r.self, "Panic", <<>>)
            ELSE read_loop(r.self, size, remaining_size - read_size,
                           next % U64Mod, copied, fault, panics)

\* Mutant of read: the page of the address is fetched before the size is
\* looked at.
read_eager(self, address, size, fault, panics) ==
    IF size = 0
    THEN LET r == read_page(AtPage(self), address \div self.page_size, fault,
                            panics)
         IN  IF r.kind # "Ok" THEN r ELSE Res(r.self, "Ok", <<>>)
    ELSE read_loop(self, size, size, address, Zeros(size), fault, panics)
read(self, address, size, fault, panics) ==
    read_loop(self, size, size, address, Zeros(size), fault, panics)

\* fn write: the loop of lines 104-121, one iteration per page touched.
RECURSIVE write_loop(_, _, _, _, _, _)
write_loop(self, data, remaining_size, current_address, fault, panics) ==
    IF remaining_size = 0
    THEN Res(self, "Ok", <<>>)
    ELSE
    LET page_id == current_address \div self.page_size
        offset == current_address % self.page_size
        write_size == Min(remaining_size, self.page_size - offset)
        r == read_page(AtPage(self), page_id, fault, panics)
    IN  IF r.kind = "Panic"
        THEN r
        ELSE
        LET page_data == IF r.kind = "Ok" THEN r.data
                         ELSE Zeros(self.page_size)
            from == ByteLen(data) - remaining_size
            patched == CopyInto(page_data, offset,
                                Slice(data, from, from + write_size))
            w == write_page(r.self, page_id, patched, fault, panics)
            next == current_address + write_size
        IN  IF w.kind # "Ok"
            THEN w
            ELSE IF next >= U64Mod /\ panics
            THEN Res(w.self, "Panic", <<>>)
            ELSE write_loop(w.self, data, remaining_size - write_size,
                            next % U64Mod, fault, panics)

write(self, address, data, fault, panics) ==
    write_loop(self, data, ByteLen(data), address, fault, panics)

\* Option<usize>
None == [some |-> FALSE, v |-> 0]
Some(n) == [some |-> TRUE, v |-> n]
\* Mutant of unwrap_or: an option of 0 counts as omitted.
unwrap_or_nonzero(opt, default) ==
    IF opt.some /\ opt.v # 0 THEN opt.v ELSE default
unwrap_or(opt, default) == IF opt.some THEN opt.v ELSE default

NoInstance ==
    [page_size |-> 0, capacity |-> 0, cache |-> <<>>, usage_order |-> <<>>,
     file_size |-> 0]

\* fn new.  fs is the file system entry of file_path: [exists, disk].
\* The result carries the instance (when Ok) and the file system afterwards.
new(fs, page_size_opt, capacity_opt, fault) ==
    IF fault.k = 1
    THEN [kind |-> "Io", inst |-> NoInstance, fs |-> fs]
    ELSE
    LET opened == [exists |-> TRUE,
                   disk |-> IF fs.exists THEN fs.disk ELSE <<>>]
    IN  IF fault.k = 2
        THEN [kind |-> "Io", inst |-> NoInstance, fs |-> opened]
        ELSE
        LET fsize == ByteLen(opened.disk)
            psize == unwrap_or(page_size_opt, DEFAULT_PAGE_SIZE)
            cap == unwrap_or(capacity_opt, DEFAULT_CAPACITY)
        IN  IF psize < MIN_PAGE_SIZE \/ cap < MIN_CAPACITY
            THEN [kind |-> "InvalidInput", inst |-> NoInstance, fs |-> opened]
            ELSE IF psize > MAX_PAGE_SIZE \/ cap > MAX_CAPACITY
            THEN [kind |-> "InvalidInput", inst |-> NoInstance, fs |-> opened]
            ELSE [kind |-> "Ok",
                  inst |-> [page_size |-> psize, capacity |-> cap,
                            cache |-> <<>>, usage_order |-> <<>>,
                            file_size |-> fsize],
                  fs |-> opened]


\* ------------------------------------------------------------------------
\* State machine
\* ------------------------------------------------------------------------
\* The instance and its file, as the operators above take them.
Self ==
    [page_size |-> page_size, capacity |-> capacity, cache |-> cache,
     usage_order |-> usage_order, file_size |-> file_size, disk |-> disk,
     io |-> <<>>, trace |-> trace,
     pre |-> [cache |-> cache, usage_order |-> usage_order,
              file_size |-> file_size]]

\* A call and its outcome: kind and failed as in Res; out is the result of a
\* read; opts are the two options of a construction; io are the I/O calls it
\* made; pre is the cache when its loop turned to the last page it handled.
Call(op, address, size, data, fault, r) ==
    [op |-> op, address |-> address, size |-> size, data |-> data,
     fault |-> fault, kind |-> r.kind, failed |-> r.failed, out |-> r.data,
     opts |-> <<>>, io |-> r.self.io, pre |-> r.self.pre]
NewCall(page_size_opt, capacity_opt, fault, kind) ==
    [op |-> "new", address |-> 0, size |-> 0, data |-> <<>>,
     fault |-> fault, kind |-> kind,
     failed |-> IF fault.k = 1 THEN "open"
                ELSE IF fault.k = 2 THEN "metadata" ELSE "",
     out |-> <<>>, opts |-> <<page_size_opt, capacity_opt>>, io |-> <<>>,
     pre |-> <<>>]

\* Capacities the model constructs caches with: one page, two pages, a
\* capacity that is no multiple of the page size, one below the page size.
Configs ==
    {<<MIN_PAGE_SIZE, MIN_PAGE_SIZE>>,
     <<MIN_PAGE_SIZE, 2 * MIN_PAGE_SIZE>>,
     <<MIN_PAGE_SIZE, 1000>>,
     <<2 * MIN_PAGE_SIZE, MIN_PAGE_SIZE>>}

\* Backing files found at construction: empty, or two and a half pages long.
InitDisks(ps) == {<<>>, Pattern(200, 2 * ps + ps \div 2)}

\* Requests <<address, size>>.  Low range: within the first MaxPages pages
\* (empty, part of a page, straddling two pages, one whole page, all pages,
\* the second half of the third page: the bytes that follow a file of two and
\* a half pages).  High range: the last page of the address space.
Requests(ps) ==
    {<<0, 0>>, <<0, ps \div 2>>, <<ps \div 2, ps>>, <<0, MaxPages * ps>>,
     <<2 * ps + ps \div 2, ps \div 2>>}
        \cup {<<p * ps, ps>> : p \in 1..(MaxPages - 1)}
        \cup {<<U64Mod - Grain, Grain>>, <<U64Mod - ps, 0>>}

\* `partial` says something only of a failing write_all.
Meaningful(io, fault) == fault.partial > 0 => io[fault.k] = "write.write_all"

\* The fault plans that change the run whose I/O calls, without a fault,
\* are `io`: one of its first MaxFault calls fails; a failing write_all has
\* written nothing or the first cell of the page.
FaultPlans(io) ==
    {NoFault} \cup
    {f \in {[k |-> k, partial |-> n] :
                k \in 1..(IF nfaulty < MaxFaulty THEN Min(MaxFault, Len(io))
                          ELSE 0),
                n \in {0, Grain}} : Meaningful(io, f)}

\* The builds that differ on this request: overflow is possible only when
\* the request reaches the last page of the address space.
Builds(address, size) ==
    IF size > 0 /\ address + size > U64Mod - page_size
    THEN BOOLEAN ELSE {FALSE}

\* The second instance: same page size, same initial file, same calls, but a
\* capacity that holds every page of the model, so that it never evicts.
RefSelf == [ref.self EXCEPT !.io = <<>>]
RefDone(r) ==
    [self |-> r.self, kind |-> r.kind, failed |-> r.failed, out |-> r.data]

Alive(limit) == constructed /\ nops < limit /\ last.kind # "Panic"

DoRead(address, size, fault, panics) ==
    \E r \in {read(Self, address, size, fault, panics)} :
        /\ Meaningful(r.self.io, fault)
        /\ cache' = r.self.cache
        /\ usage_order' = r.self.usage_order
        /\ file_size' = r.self.file_size
        /\ disk' = r.self.disk
        /\ trace' = r.self.trace
        /\ last' = Call("read", address, size, <<>>, fault, r)
        /\ nfaulty' = IF fault.k > 0 THEN nfaulty + 1 ELSE nfaulty
        /\ nops' = nops + 1
        /\ UNCHANGED <<page_size, capacity, exists, constructed, init_disk,
                       writes>>

DoWrite(address, data, fault, panics) ==
    \E r \in {write(Self, address, data, fault, panics)} :
        /\ Meaningful(r.self.io, fault)
        /\ cache' = r.self.cache
        /\ usage_order' = r.self.usage_order
        /\ file_size' = r.self.file_size
        /\ disk' = r.self.disk
        /\ trace' = r.self.trace
        /\ last' = Call("write", address, ByteLen(data), data, fault, r)
        /\ writes' = IF r.kind = "Ok" /\ data # <<>>
                     THEN Append(writes, [address |-> address, data |-> data])
                     ELSE writes
        /\ nfaulty' = IF fault.k > 0 THEN nfaulty + 1 ELSE nfaulty
        /\ nops' = nops + 1
        /\ UNCHANGED <<page_size, capacity, exists, constructed, init_disk>>

\* The data of the call: different from call to call.
Data(size) == Pattern(17 * nops, size)

\* pub fn read, in an environment whose I/O calls succeed.
Read(address, size) ==
    /\ Alive(MaxOps)
    /\ \E panics \in Builds(address, size) :
        /\ DoRead(address, size, NoFault, panics)
        /\ ref' = RefDone(read(RefSelf, address, size, NoFault, panics))
    /\ UNCHANGED old

\* pub fn write, in an environment whose I/O calls succeed.
Write(address, size) ==
    /\ Alive(MaxOps)
    /\ \E panics \in Builds(address, size) :
        /\ DoWrite(address, Data(size), NoFault, panics)
        /\ ref' = RefDone(write(RefSelf, address, Data(size), NoFault, panics))
    /\ UNCHANGED old

\* pub fn read, in an environment that may make one of its I/O calls fail.
ReadIo(address, size) ==
    /\ Alive(MaxIoOps)
    /\ \E panics \in Builds(address, size) :
        \E fault \in FaultPlans(read(Self, address, size, NoFault, panics).self.io) :
            DoRead(address, size, fault, panics)
    /\ UNCHANGED <<ref, old>>

\* pub fn write, in an environment that may make one of its I/O calls fail.
WriteIo(address, size) ==
    /\ Alive(MaxIoOps)
    /\ \E panics \in Builds(address, size) :
        \E fault \in FaultPlans(write(Self, address, Data(size), NoFault,
                                      panics).self.io) :
            DoWrite(address, Data(size), fault, panics)
    /\ UNCHANGED <<ref, old>>

\* The state after a successful WriteThroughCache::new on an existing file.
Init ==
    \E cfg \in Configs : \E d \in InitDisks(cfg[1]) :
        LET c == new([exists |-> TRUE, disk |-> d], Some(cfg[1]), Some(cfg[2]),
                     NoFault)
            big == new([exists |-> TRUE, disk |-> d], Some(cfg[1]),
                       Some(MAX_CAPACITY), NoFault)
        IN  /\ c.kind = "Ok"
            /\ page_size = c.inst.page_size
            /\ capacity = c.inst.capacity
            /\ cache = c.inst.cache
            /\ usage_order = c.inst.usage_order
            /\ file_size = c.inst.file_size
            /\ disk = c.fs.disk
            /\ exists = c.fs.exists
            /\ constructed = TRUE
            /\ last = NewCall(Some(cfg[1]), Some(cfg[2]), NoFault, c.kind)
            /\ nops = 0
            /\ nfaulty = 0
            /\ trace = <<>>
            /\ init_disk = d
            /\ writes = <<>>
            /\ ref = [self |-> [page_size |-> big.inst.page_size,
                                 capacity |-> big.inst.capacity,
                                 cache |-> big.inst.cache,
                                 usage_order |-> big.inst.usage_order,
                                 file_size |-> big.inst.file_size,
                                 disk |-> big.fs.disk,
                                 io |-> <<>>, trace |-> <<>>, pre |-> <<>>],
                       kind |-> big.kind, failed |-> "", out |-> <<>>]
            /\ old = <<>>

Next ==
    \E rq \in Requests(page_size) :
        \/ Read(rq[1], rq[2])
        \/ Write(rq[1], rq[2])

Spec == Init /\ [][Next]_vars

NextIo ==
    \E rq \in Requests(page_size) :
        \/ ReadIo(rq[1], rq[2])
        \/ WriteIo(rq[1], rq[2])

SpecIo == Init /\ [][NextIo]_vars

\* ------------------------------------------------------------------------
\* Construction on its own: every call is WriteThroughCache::new
\* ------------------------------------------------------------------------
\* Stands for usize::MAX: the largest integer the model checker represents.
UsizeMax == MAX_CAPACITY + (MAX_CAPACITY - 1)

PageSizeOpts ==
    {None} \cup {Some(v) : v \in {0, MIN_PAGE_SIZE - 1, MIN_PAGE_SIZE,
                                  MAX_PAGE_SIZE, MAX_PAGE_SIZE + 1, UsizeMax}}
CapacityOpts ==
    {None} \cup {Some(v) : v \in {0, MIN_CAPACITY - 1, MIN_CAPACITY,
                                  MAX_CAPACITY, MAX_CAPACITY + 1, UsizeMax}}

\* In `new`, call 1 is File::open and call 2 is File::metadata.
NewFaults == {[k |-> k, partial |-> 0] : k \in 0..2}

\* The path names no file, an empty file, or a file with contents; no
\* instance is live.
InitNew ==
    /\ exists \in BOOLEAN
    /\ disk \in (IF exists THEN InitDisks(MIN_PAGE_SIZE) ELSE {<<>>})
    /\ constructed = FALSE
    /\ page_size = NoInstance.page_size
    /\ capacity = NoInstance.capacity
    /\ cache = NoInstance.cache
    /\ usage_order = NoInstance.usage_order
    /\ file_size = NoInstance.file_size
    /\ last = [NewCall(None, None, NoFault, "Ok") EXCEPT !.op = "none"]
    /\ nops = 0
    /\ nfaulty = 0
    /\ trace = <<>>
    /\ init_disk = disk
    /\ writes = <<>>
    /\ ref = <<>>
    /\ old = <<>>

\* WriteThroughCache::new(file_path, page_size, capacity).  An instance made
\* by an earlier call has been dropped.
New(page_size_opt, capacity_opt, fault) ==
    \E c \in {new([exists |-> exists, disk |-> disk], page_size_opt,
                  capacity_opt, fault)} :
        /\ exists' = c.fs.exists
        /\ disk' = c.fs.disk
        /\ constructed' = (c.kind = "Ok")
        /\ page_size' = c.inst.page_size
        /\ capacity' = c.inst.capacity
        /\ cache' = c.inst.cache
        /\ usage_order' = c.inst.usage_order
        /\ file_size' = c.inst.file_size
        /\ last' = NewCall(page_size_opt, capacity_opt, fault, c.kind)
        /\ init_disk' = c.fs.disk
        /\ UNCHANGED <<nops, nfaulty, trace, writes, ref, old>>

NextNew ==
    \E page_size_opt \in PageSizeOpts, capacity_opt \in CapacityOpts,
       fault \in NewFaults :
        New(page_size_opt, capacity_opt, fault)

SpecNew == InitNew /\ [][NextNew]_vars

\* ------------------------------------------------------------------------
\* Restart: the instance is dropped and a new one made on the same file
\* ------------------------------------------------------------------------
\* The dropped instance, kept to compare: it is given the reads the new
\* instance is given.
OldSelf == [old.self EXCEPT !.io = <<>>]

\* drop(cache); WriteThroughCache::new(same path, same options).  Once.
Reopen ==
    /\ Alive(MaxOps)
    /\ old = <<>>
    /\ \E c \in {new([exists |-> exists, disk |-> disk], Some(page_size),
                      Some(capacity), NoFault)} :
        /\ c.kind = "Ok"
        /\ exists' = c.fs.exists
        /\ disk' = c.fs.disk
        /\ page_size' = c.inst.page_size
        /\ capacity' = c.inst.capacity
        /\ cache' = c.inst.cache
        /\ usage_order' = c.inst.usage_order
        /\ file_size' = c.inst.file_size
        /\ last' = NewCall(Some(page_size), Some(capacity), NoFault, c.kind)
        /\ init_disk' = c.fs.disk
    /\ old' = RefDone(Res(Self, last.kind, last.out))
    /\ trace' = <<>>
    /\ nops' = nops + 1
    /\ UNCHANGED <<constructed, nfaulty, writes, ref>>

\* pub fn read on the new instance.
ReadReopened(address, size) ==
    /\ Alive(MaxOps)
    /\ old # <<>>
    /\ \E panics \in Builds(address, size) :
        /\ DoRead(address, size, NoFault, panics)
        /\ old' = RefDone(read(OldSelf, address, size, NoFault, panics))
        /\ ref' = RefDone(read(RefSelf, address, size, NoFault, panics))

NextRestart ==
    \/ old = <<>> /\ Next
    \/ Reopen
    \/ \E rq \in Requests(page_size) : ReadReopened(rq[1], rq[2])

SpecRestart == Init /\ [][NextRestart]_vars


\* ------------------------------------------------------------------------
\* Properties
\* ------------------------------------------------------------------------
\* The positions (first bytes of cells) of the range [address, address + size).
Positions(address, size) ==
    {address + i * Grain : i \in 0..((size \div Grain) - 1)}
\* The byte at position pos of a buffer whose first byte is at position from.
ByteAt(buf, from, pos) == buf[((pos - from) \div Grain) + 1]
\* The number, in `writes`, of the last successful write to pos; 0 if none.
LastWriteTo(pos) ==
    LET covering == {j \in 1..Len(writes) :
                        /\ writes[j].address <= pos
                        /\ pos < writes[j].address + ByteLen(writes[j].data)}
    IN  IF covering = {} THEN 0
        ELSE CHOOSE j \in covering : \A k \in covering : k <= j
\* The pages a request touches.
PagesOf(address, size) ==
    {pos \div page_size : pos \in Positions(address, size)}
\* The last call was a read, on an instance made on an empty file, of a
\* non-empty range within the logical length.
FreshRead ==
    /\ constructed
    /\ init_disk = <<>>
    /\ last.op = "read"
    /\ last.size > 0
    /\ last.address + last.size <= file_size

\* C1: write-then-read round trip.  On an instance made on an empty file, a
\* read of a range within the logical length succeeds and returns, at every
\* position that was written, the byte of the last write to that position.
C1_RoundTrip ==
    FreshRead =>
        /\ last.kind = "Ok"
        /\ ByteLen(last.out) = last.size
        /\ \A pos \in Positions(last.address, last.size) :
            LastWriteTo(pos) # 0 =>
                ByteAt(last.out, last.address, pos)
                    = ByteAt(writes[LastWriteTo(pos)].data,
                             writes[LastWriteTo(pos)].address, pos)

\* C1 witness: a read across a page boundary returned a position that two
\* writes had written, one of them across a page boundary.
C1_Witness ==
    /\ FreshRead
    /\ last.kind = "Ok"
    /\ Cardinality(PagesOf(last.address, last.size)) >= 2
    /\ \E pos \in Positions(last.address, last.size) :
        /\ LastWriteTo(pos) = 2
        /\ writes[1].address <= pos
        /\ pos < writes[1].address + ByteLen(writes[1].data)
    /\ \E j \in 1..Len(writes) :
        Cardinality(PagesOf(writes[j].address, ByteLen(writes[j].data))) = 2

\* C2: zero fill.  On an instance made on an empty file, a read of a range
\* within the logical length succeeds and returns 0 at every position that
\* was never written.
C2_ZeroFill ==
    FreshRead =>
        /\ last.kind = "Ok"
        /\ \A pos \in Positions(last.address, last.size) :
            LastWriteTo(pos) = 0 => ByteAt(last.out, last.address, pos) = 0

\* The history has the event e of page p.
HasEvent(e, p) == \E i \in 1..Len(trace) : trace[i].e = e /\ trace[i].p = p

\* C2 witness: a read returned 0 at a never-written position of a partially
\* written page that had been evicted and was loaded again by this read.
C2_Witness ==
    /\ FreshRead
    /\ last.kind = "Ok"
    /\ \E pos \in Positions(last.address, last.size) :
        /\ LastWriteTo(pos) = 0
        /\ ByteAt(last.out, last.address, pos) = 0
        /\ HasEvent("evict", pos \div page_size)
        /\ trace[Len(trace)] = [e |-> "load", p |-> pos \div page_size,
                                res |-> {}]
        /\ \E j \in 1..Len(writes) :
            writes[j].address \div page_size = pos \div page_size


\* C3: capacity bound.  The resident pages never take more bytes than the
\* capacity, for every configuration the constructor accepts.
C3_CapacityBound ==
    constructed => Cardinality(DOMAIN cache) * page_size <= capacity

IsTouch(ev) == ev.e \in {"hit", "load", "store"}
\* The place in `trace` of the most recent touch of page p before place i
\* (0: none).
LastTouchBefore(i, p) ==
    LET at == {j \in 1..(i - 1) : IsTouch(trace[j]) /\ trace[j].p = p}
    IN  IF at = {} THEN 0 ELSE CHOOSE j \in at : \A k \in at : k <= j
\* The pages touched, oldest first, a run of touches of one page counted once.
RECURSIVE Collapse(_)
Collapse(sq) ==
    IF Len(sq) <= 1 THEN sq
    ELSE IF sq[1] = sq[2] THEN Collapse(Tail(sq))
    ELSE <<sq[1]>> \o Collapse(Tail(sq))
TouchedPages ==
    LET touches == SelectSeq(trace, IsTouch)
    IN  Collapse([i \in 1..Len(touches) |-> touches[i].p])
EvictedPages ==
    LET ev == SelectSeq(trace, LAMBDA x : x.e = "evict")
    IN  [i \in 1..Len(ev) |-> ev[i].p]
Distinct(sq) == Cardinality({sq[i] : i \in 1..Len(sq)}) = Len(sq)

\* The pages were touched in the order A, B, A, C by a cache for two pages.
TouchedABAC ==
    /\ constructed
    /\ capacity = 2 * page_size
    /\ Len(TouchedPages) = 4
    /\ TouchedPages[3] = TouchedPages[1]
    /\ Distinct(<<TouchedPages[1], TouchedPages[2], TouchedPages[4]>>)

\* C4: LRU victim.  Every evicted page was resident and its most recent
\* touch (read hit, load or write) was older than that of every other
\* resident page.  With capacity for 2 pages, touching A, B, A, C evicts B
\* alone; with capacity for exactly N pages, after touching N + 1 distinct
\* pages the first is the only one not resident.
C4_LruVictim ==
    /\ \A i \in 1..Len(trace) :
        trace[i].e = "evict" =>
            /\ trace[i].p \in trace[i].res
            /\ \A q \in trace[i].res \ {trace[i].p} :
                LastTouchBefore(i, trace[i].p) < LastTouchBefore(i, q)
    /\ TouchedABAC =>
        /\ DOMAIN cache = {TouchedPages[1], TouchedPages[4]}
        /\ EvictedPages = <<TouchedPages[2]>>
    /\ ( /\ constructed
         /\ capacity % page_size = 0
         /\ Len(TouchedPages) = (capacity \div page_size) + 1
         /\ Distinct(TouchedPages) )
        => DOMAIN cache = {TouchedPages[i] : i \in 2..Len(TouchedPages)}

\* C4 witness: A, B, A, C were touched by writes and a read, and B was
\* evicted.
C4_Witness ==
    /\ TouchedABAC
    /\ last.op = "write"
    /\ \E i \in 1..Len(trace) : trace[i].e = "hit"
    /\ EvictedPages = <<TouchedPages[2]>>

\* C5: residency is transparent.  The instance and an instance that never
\* evicts, given the same calls on the same initial file, agree on the
\* outcome of every call and on the contents of the file after it.
C5_Transparent ==
    constructed =>
        /\ ref.kind = last.kind
        /\ ref.failed = last.failed
        /\ ref.out = last.out
        /\ ref.self.disk = disk

\* C5 witness: a read returned the bytes of a page that had been evicted and
\* that this read loaded again, while the other instance still held it.
C5_Witness ==
    /\ constructed
    /\ last.op = "read"
    /\ last.kind = "Ok"
    /\ last.size > 0
    /\ Len(trace) > 0
    /\ trace[Len(trace)].e = "load"
    /\ HasEvent("evict", trace[Len(trace)].p)
    /\ HasEvent("store", trace[Len(trace)].p)
    /\ \A i \in 1..Len(ref.self.trace) : ref.self.trace[i].e # "evict"
    /\ ref.self.trace[Len(ref.self.trace)].e = "hit"

\* The step is a call of read or write.
IsCall(op) == nops' = nops + 1 /\ last'.op = op

\* C6: out-of-range read.  A non-empty read of a range at or beyond the
\* logical length fails with an error of kind InvalidInput, returns no
\* bytes and changes neither the cache nor the file.
C6_OutOfRangeRead ==
    [][(IsCall("read") /\ last'.size > 0 /\ last'.address >= file_size) =>
            /\ last'.kind = "InvalidInput"
            /\ last'.out = <<>>
            /\ UNCHANGED <<cache, usage_order, file_size, disk>>]_vars

\* C7: zero-length requests are no-ops.  read(address, 0) succeeds with an
\* empty result, write(address, empty) succeeds, and neither changes the
\* cache or the file.
C7_ZeroLength ==
    [][((IsCall("read") \/ IsCall("write")) /\ last'.size = 0) =>
            /\ last'.kind = "Ok"
            /\ last'.out = <<>>
            /\ last'.io = <<>>
            /\ UNCHANGED <<cache, usage_order, file_size, disk>>]_vars

\* C7 witness: an empty read succeeded at an address beyond the logical
\* length, on a cache that holds a page.
C7_Witness ==
    /\ constructed
    /\ last.op = "read"
    /\ last.size = 0
    /\ last.kind = "Ok"
    /\ last.address > file_size
    /\ cache # <<>>

\* The value of an option of the last construction, given its default.
OptOr(i, default) ==
    IF last.opts[i].some THEN last.opts[i].v ELSE default

\* C8: construction validates both bounds.  When the file can be opened,
\* construction fails, with InvalidInput, exactly when page_size < 512,
\* page_size > 1 MiB, capacity < 512 or capacity > 1 GiB, an omitted
\* page_size being 64 KiB and an omitted capacity 16 MiB.
C8_Validation ==
    (last.op = "new" /\ last.fault.k = 0) =>
        LET ps == OptOr(1, 65536)
            cap == OptOr(2, 16777216)
            bad == ps < 512 \/ ps > 1048576 \/ cap < 512 \/ cap > 1073741824
        IN  /\ last.kind = (IF bad THEN "InvalidInput" ELSE "Ok")
            /\ constructed = ~bad
            /\ ~bad => (page_size = ps /\ capacity = cap)

\* C8 witness: a construction with a page_size of 0 and the largest capacity
\* was rejected on a file that could be opened.
C8_Witness ==
    /\ last.op = "new"
    /\ last.fault.k = 0
    /\ last.opts = <<Some(0), Some(MAX_CAPACITY)>>
    /\ last.kind = "InvalidInput"
    /\ ~constructed

\* C9: a construction that fails with InvalidInput has done no I/O: the
\* file is neither created nor changed.
C9_NoIoOnInvalid ==
    [][(last'.op = "new" /\ last'.kind = "InvalidInput") =>
            (exists' = exists /\ disk' = disk)]_vars

\* The last call was a write that failed in write_page's positioned write or
\* flush.
StoreFailed ==
    /\ constructed
    /\ last.op = "write"
    /\ last.kind \in {"Io", "InvalidInput"}
    /\ last.failed \in {"write.seek", "write.write_all", "write.sync_all"}

\* C10: a failed store_page is fully rolled back.  When the positioned write
\* or the flush of a page fails, the cache is as it was when write turned to
\* that page: same resident pages with the same contents, same recency
\* order, same logical length.
C10_RolledBack ==
    StoreFailed =>
        /\ cache = last.pre.cache
        /\ usage_order = last.pre.usage_order
        /\ file_size = last.pre.file_size

\* The step is a write, within the logical length, in which a positioned
\* read of a page (the seek or the read_exact of read_page) failed.
ReadFailedInWrite ==
    /\ IsCall("write")
    /\ last'.address + last'.size <= file_size
    /\ last'.fault.k > 0
    /\ last'.io[last'.fault.k] \in {"read.seek", "read.read_exact"}

\* C11: no error is swallowed on the write path except the missing page.
\* When the positioned read of a page within the logical length fails during
\* a write, the write returns that failure and makes no further I/O call, so
\* that nothing is written to the file.
C11_ReadErrorSurfaces ==
    [][ReadFailedInWrite =>
            /\ last'.kind = "Io"
            /\ last'.failed = last'.io[last'.fault.k]
            /\ Len(last'.io) = last'.fault.k
            /\ disk' = disk]_vars

\* The last call was a non-empty read inside the final page of a file whose
\* length is no multiple of the page size (a read changes neither the length
\* nor the file, so both are those the call found).
PartialFinalRead ==
    /\ constructed
    /\ last.op = "read"
    /\ last.size > 0
    /\ LET p == last.address \div page_size
       IN  /\ p * page_size < file_size
           /\ file_size < (p + 1) * page_size
           /\ last.address + last.size <= (p + 1) * page_size

\* C12: partial final page.  A read inside the final, partly backed page
\* succeeds and returns the bytes of the file below the logical length and 0
\* above it.
C12_PartialFinalPage ==
    PartialFinalRead =>
        /\ last.kind = "Ok"
        /\ ByteLen(last.out) = last.size
        /\ \A pos \in Positions(last.address, last.size) :
            ByteAt(last.out, last.address, pos)
                = (IF pos < file_size THEN ByteAt(disk, 0, pos) ELSE 0)

\* C13: a write changes only the bytes it names.  After a successful write,
\* every byte of the file below the old logical length and outside the
\* written range is as it was.
C13_WriteFrame ==
    [][(IsCall("write") /\ last'.kind = "Ok") =>
            \A pos \in Positions(0, Min(file_size, ByteLen(disk))) :
                (pos < last'.address \/ pos >= last'.address + last'.size)
                    => ByteAt(disk', 0, pos) = ByteAt(disk, 0, pos)]_vars

\* C14: write-through coherence.  In every state, after successful and
\* failed calls alike, every resident page holds page_size bytes, and they
\* are the bytes of the file at the page's place.
C14_Coherent ==
    constructed =>
        \A p \in DOMAIN cache :
            /\ ByteLen(cache[p]) = page_size
            /\ FileHas(disk, p * page_size, page_size)
            /\ cache[p] = FileRead(disk, p * page_size, page_size)

\* C15: restart.  A new instance made on the file of a dropped one starts
\* with no resident page, an empty recency order and the logical length the
\* dropped instance had, which is the length of the file; every read on it
\* returns what the dropped instance would have returned.
C15_Restart ==
    old # <<>> =>
        /\ last.op = "new" =>
            /\ cache = <<>>
            /\ usage_order = <<>>
            /\ file_size = old.self.file_size
            /\ file_size = ByteLen(disk)
        /\ last.op = "read" =>
            /\ last.kind = old.kind
            /\ last.out = old.out

\* C15 witness: after writes and a restart, a read that the dropped instance
\* would have served from its cache loaded the page from the file and
\* returned the same bytes.
C15_Witness ==
    /\ old # <<>>
    /\ writes # <<>>
    /\ last.op = "read"
    /\ last.kind = "Ok"
    /\ last.size > 0
    /\ last.out = old.out
    /\ trace # <<>>
    /\ trace[Len(trace)].e = "load"
    /\ old.self.trace[Len(old.self.trace)].e = "hit"
    /\ \E i \in 1..Len(old.self.trace) :
        /\ old.self.trace[i].e = "store"
        /\ old.self.trace[i].p = trace[Len(trace)].p

\* The pages stored (write_page succeeded) by the call that makes the step.
NewStores ==
    {trace'[i].p : i \in {j \in (Len(trace) + 1)..Len(trace') :
                            trace'[j].e = "store"}}
\* The largest number of a non-empty set of numbers.
MaxOf(S) == CHOOSE x \in S : \A y \in S : y <= x
\* The logical length never decreases and changes only by a successful store
\* of a page p, which makes it at least (p + 1) * page_size: a step without
\* such a store (a read, a write that fails at its first page) leaves it.
LengthSteps ==
    (constructed /\ nops' = nops + 1) =>
        /\ file_size' >= file_size
        /\ file_size'
            = MaxOf({file_size} \cup {(p + 1) * page_size : p \in NewStores})

\* C16 (as stated): the logical length is monotonically non-decreasing,
\* changes only in a successful per-page write, which sets it to
\* max(logical_length, (p + 1) * page_size), and always equals the length of
\* the file.
C16_LengthExact ==
    /\ [](constructed => file_size = ByteLen(disk))
    /\ [][LengthSteps]_vars

\* C16 (amended): as stated, but the logical length never exceeds the length
\* of the file, and equals it as long as no I/O call has failed.
C16_LengthMonotone ==
    /\ [](constructed =>
            /\ file_size <= ByteLen(disk)
            /\ nfaulty = 0 => file_size = ByteLen(disk))
    /\ [][LengthSteps]_vars

\* C16 witness: a write of several pages failed after its first page was
\* stored and had extended the logical length; the failing page had reached
\* the file, which is longer than the logical length.
C16_Witness ==
    /\ constructed
    /\ last.op = "write"
    /\ last.kind = "Io"
    /\ last.failed = "write.sync_all"
    /\ file_size > ByteLen(init_disk)
    /\ file_size < ByteLen(disk)

\* The place in `trace` of the most recent touch of page p (0: none).
LastTouch(p) == LastTouchBefore(Len(trace) + 1, p)

\* C17: index/recency consistency.  In every state the recency order holds
\* each resident page once and no other page, least recently touched first.
C17_OrderConsistent ==
    constructed =>
        /\ {usage_order[i] : i \in 1..Len(usage_order)} = DOMAIN cache
        /\ Len(usage_order) = Cardinality(DOMAIN cache)
        /\ \A i, j \in 1..Len(usage_order) :
            i < j => LastTouch(usage_order[i]) < LastTouch(usage_order[j])

\* C17 witness: after an eviction two pages are resident, the one with the
\* larger number touched before the other.
C17_Witness ==
    /\ constructed
    /\ Len(usage_order) = 2
    /\ usage_order[1] > usage_order[2]
    /\ \E i \in 1..Len(trace) : trace[i].e = "evict"
    /\ DOMAIN cache = {usage_order[1], usage_order[2]}

\* The step is a non-empty read or write that touches one page.
OnePageCall ==
    /\ IsCall("read") \/ IsCall("write")
    /\ last'.size > 0
    /\ Cardinality(PagesOf(last'.address, last'.size)) = 1
\* The pages the step removes from the cache.
Removed == DOMAIN cache \ DOMAIN cache'

\* C18: eviction discipline.  Every eviction is of one resident page, is
\* followed at once by the insertion of a page that was not resident, and
\* that page is not the victim.  An access to one page removes at most one
\* page; when the page is resident it removes none; when it is inserted, a
\* page is removed exactly when the insertion would otherwise take the
\* resident pages beyond the capacity (and a page is resident).
C18_EvictionDiscipline ==
    /\ [](\A i \in 1..Len(trace) :
            trace[i].e = "evict" =>
                /\ trace[i].p \in trace[i].res
                /\ i < Len(trace)
                /\ trace[i + 1].e \in {"load", "store"}
                /\ trace[i + 1].p \notin trace[i].res)
    /\ [][OnePageCall =>
            LET p == last'.address \div page_size
                n == Cardinality(DOMAIN cache)
            IN  /\ Cardinality(Removed) <= 1
                /\ p \notin Removed
                /\ p \in DOMAIN cache => Removed = {}
                /\ (p \notin DOMAIN cache /\ p \in DOMAIN cache') =>
                        (Removed # {} <=>
                            (n > 0 /\ (n + 1) * page_size > capacity))]_vars

\* The last call was a successful non-empty read or write.
Served ==
    /\ constructed
    /\ last.op \in {"read", "write"}
    /\ last.kind = "Ok"
    /\ last.size > 0
\* The page of the last byte of the last call's range.
LastPage == (last.address + last.size - 1) \div page_size

\* C19: promotion on every touch.  After a successful non-empty read or
\* write the page of the last byte of the range is resident and is the most
\* recently used entry of the recency order.
C19_Promoted ==
    Served =>
        /\ LastPage \in DOMAIN cache
        /\ usage_order # <<>>
        /\ usage_order[Len(usage_order)] = LastPage

\* C19 witness: a read hit on the least recently used of two resident pages
\* moved it to the back of the recency order.
C19_Witness ==
    /\ Served
    /\ last.op = "read"
    /\ trace[Len(trace)] = [e |-> "hit", p |-> LastPage, res |-> {}]
    /\ Len(usage_order) = 2
    /\ usage_order[2] = LastPage
    /\ LastTouchBefore(Len(trace), usage_order[2])
            < LastTouchBefore(Len(trace), usage_order[1])

\* The step is a read of several pages that failed with an error.
FailedRead ==
    /\ IsCall("read")
    /\ last'.kind \in {"InvalidInput", "Io"}
    /\ Cardinality(PagesOf(last'.address, last'.size)) >= 2
\* The events the step adds to the history, and the pages it touched.
NewEvents == SubSeq(trace', Len(trace) + 1, Len(trace'))
Fetched ==
    LET touches == SelectSeq(NewEvents, IsTouch)
    IN  [i \in 1..Len(touches) |-> touches[i].p]

\* C20: partial failure of a read of several pages.  The call returns the
\* error and no bytes, and leaves the file and the logical length.  The pages
\* before the failing one were fetched in order; each is still resident
\* unless a later one of them evicted it, and the last of them is the most
\* recently used.  Nothing changed from the failing page on: it is not
\* resident, and no later page of the range was inserted or promoted.
C20_PartialRead ==
    [][FailedRead =>
        LET first == last'.address \div page_size
            failing == first + Len(Fetched)
        IN  /\ last'.out = <<>>
            /\ disk' = disk
            /\ file_size' = file_size
            /\ \A i \in 1..Len(Fetched) : Fetched[i] = first + i - 1
            /\ \A i \in 1..Len(Fetched) :
                \/ Fetched[i] \in DOMAIN cache'
                \/ \E j \in 1..Len(NewEvents) :
                    NewEvents[j].e = "evict" /\ NewEvents[j].p = Fetched[i]
            /\ Fetched # <<>> =>
                /\ Fetched[Len(Fetched)] \in DOMAIN cache'
                /\ usage_order'[Len(usage_order')] = Fetched[Len(Fetched)]
            /\ Fetched = <<>> =>
                (cache' = cache /\ usage_order' = usage_order)
            /\ failing \in PagesOf(last'.address, last'.size)
            /\ failing \notin DOMAIN cache'
            /\ cache' = last'.pre.cache
            /\ usage_order' = last'.pre.usage_order
            /\ \A q \in PagesOf(last'.address, last'.size) :
                (q > failing /\ q \in DOMAIN cache') => q \in DOMAIN cache]_vars

\* C20 witness: a read of three pages failed with an I/O error at its second
\* page, after its first page had been loaded and had evicted the page that
\* was resident.
C20_Witness ==
    /\ constructed
    /\ last.op = "read"
    /\ last.kind = "Io"
    /\ last.failed \in {"read.seek", "read.read_exact"}
    /\ Cardinality(PagesOf(last.address, last.size)) >= 3
    /\ Len(trace) >= 2
    /\ trace[Len(trace) - 1].e = "evict"
    /\ trace[Len(trace)] = [e |-> "load", p |-> last.address \div page_size,
                            res |-> {}]
    /\ DOMAIN cache = {last.address \div page_size}
    /\ last.out = <<>>

\* A call record is a write of several pages that failed in the positioned
\* write or the flush of one of its pages.
IsFailedStore(c) ==
    /\ c.op = "write"
    /\ c.kind = "Io"
    /\ c.failed \in {"write.seek", "write.write_all", "write.sync_all"}
    /\ Cardinality(PagesOf(c.address, c.size)) >= 2
\* The number of pages the call stored before the failing one: its flushes
\* that succeeded.
StoredBefore(c) ==
    Cardinality({i \in 1..Len(c.io) : c.io[i] = "write.sync_all"})
        - (IF c.failed = "write.sync_all" THEN 1 ELSE 0)
\* The first byte of the failing page of the call.
FailedAt(c) == ((c.address \div page_size) + StoredBefore(c)) * page_size
\* The pages before the failing one.
PagesBefore(c) ==
    {p \in PagesOf(c.address, c.size) : (p + 1) * page_size <= FailedAt(c)}
\* The bytes of the file from offset `from` on are those of before the step,
\* and the file has not grown beyond `from`.
StoreKeptFrom(from) ==
    /\ \A pos \in Positions(0, ByteLen(disk)) :
        pos >= from => (pos < ByteLen(disk') /\ ByteAt(disk', 0, pos)
                                                    = ByteAt(disk, 0, pos))
    /\ ByteLen(disk') <= Max(ByteLen(disk), from)
\* The step made a call, a failed write, whose earlier pages are in the file
\* with the new bytes and within the logical length.
EarlierPagesStored ==
    /\ \A pos \in Positions(last'.address, last'.size) :
        pos < FailedAt(last')
            => ByteAt(disk', 0, pos) = ByteAt(last'.data, last'.address, pos)
    /\ PagesBefore(last') # {} => file_size' >= FailedAt(last')
\* The step is a read, with no failing I/O, inside the earlier pages of the
\* failed write that was the call before it; it returns the bytes written.
ReadsBack ==
    (/\ constructed
     /\ IsFailedStore(last)
     /\ IsCall("read")
     /\ last'.fault.k = 0
     /\ last'.size > 0
     /\ last'.address >= last.address
     /\ last'.address + last'.size <= FailedAt(last))
        => /\ last'.kind = "Ok"
           /\ \A pos \in Positions(last'.address, last'.size) :
                ByteAt(last'.out, last'.address, pos)
                    = ByteAt(last.data, last.address, pos)

\* C21 (as stated): partial failure of a write of several pages.  When the
\* write fails with an I/O error at its k-th page, the pages before it are in
\* the file with the new bytes, are resident with those contents and are
\* within the logical length; the bytes of the k-th and of all later pages
\* are unchanged in the file; a later read of the earlier sub-ranges returns
\* the new bytes.
C21_PartialWriteExact ==
    /\ [][(IsCall("write") /\ IsFailedStore(last')) =>
            /\ EarlierPagesStored
            /\ \A p \in PagesBefore(last') :
                /\ p \in DOMAIN cache'
                /\ cache'[p] = FileRead(disk', p * page_size, page_size)
            /\ StoreKeptFrom(FailedAt(last'))]_vars
    /\ [][ReadsBack]_vars

\* C21 (amended): as stated, but an earlier page is resident with the file's
\* contents unless a later page of the request evicted it, and the bytes
\* that are unchanged in the file are those of the pages after the k-th, and
\* those of the k-th page too when it is the seek that failed.
C21_PartialWrite ==
    /\ [][(IsCall("write") /\ IsFailedStore(last')) =>
            /\ EarlierPagesStored
            /\ \A p \in PagesBefore(last') :
                IF p \in DOMAIN cache'
                THEN cache'[p] = FileRead(disk', p * page_size, page_size)
                ELSE \E j \in 1..Len(NewEvents) :
                        NewEvents[j].e = "evict" /\ NewEvents[j].p = p
            /\ StoreKeptFrom(FailedAt(last') + page_size)
            /\ last'.failed = "write.seek" => StoreKeptFrom(FailedAt(last'))]_vars
    /\ [][ReadsBack]_vars

\* C21 witness: a write of three pages failed in the write_all of its second
\* page, part of which reached the file; its first page is in the file with
\* the new bytes and was evicted when the second page was loaded.
C21_Witness ==
    /\ constructed
    /\ IsFailedStore(last)
    /\ last.failed = "write.write_all"
    /\ last.fault.partial > 0
    /\ Cardinality(PagesOf(last.address, last.size)) >= 3
    /\ StoredBefore(last) = 1
    /\ FileRead(disk, last.address, page_size) = Slice(last.data, 0, page_size)
    /\ (last.address \div page_size) \notin DOMAIN cache
    /\ \E i \in 1..Len(trace) :
        trace[i].e = "evict" /\ trace[i].p = last.address \div page_size
    /\ file_size >= FailedAt(last)

\* The step is a non-empty read or write.
NonEmptyCall ==
    /\ IsCall("read") \/ IsCall("write")
    /\ last'.size > 0

\* C22: no address arithmetic overflows.  For every page a request touches,
\* the end of the page, (page_id + 1) * page_size, is below 2^64 (here
\* U64Mod), and so are its start and the address after each chunk; no call
\* aborts; and a non-empty read in the last page of the address space, on a
\* shorter file, fails with the code's own InvalidInput error, without an
\* I/O call, as any read beyond the logical length does.
C22_NoOverflow ==
    [][NonEmptyCall =>
        /\ \A p \in PagesOf(last'.address, last'.size) :
            /\ p * page_size < U64Mod
            /\ (p + 1) * page_size < U64Mod
        /\ last'.address + last'.size < U64Mod
        /\ last'.kind # "Panic"
        /\ (/\ IsCall("read")
            /\ last'.address >= U64Mod - page_size
            /\ last'.address >= file_size)
                => /\ last'.kind = "InvalidInput"
                   /\ last'.failed = ""
                   /\ last'.io = <<>>
                   /\ UNCHANGED <<cache, usage_order, file_size, disk>>]_vars

====
